---- MODULE Spec2Model ----
(***************************************************************************)
(* State-machine model of the Astation relay server's in-memory stores:    *)
(*   - VoiceSessionStore and the /api/llm/chat rendezvous handler          *)
(*       (relay-server/src/voice_session.rs, llm_proxy.rs)                 *)
(*   - RtcSessionStore (relay-server/src/rtc_session.rs)                   *)
(*   - the OTP SessionStore and its grant / deny handlers                  *)
(*       (api-server/src/session_store.rs, relay-server/src/routes.rs,     *)
(*        relay-server/src/auth.rs)                                        *)
(* Every lock acquisition of the code is one step of the model: what runs  *)
(* between two awaits of a handler is one action, and other tasks may run  *)
(* between any two actions.  The three stores share nothing, so each has   *)
(* its own specification (SpecVoice, SpecRtc, SpecOtp) over its own        *)
(* variables.                                                              *)
(***************************************************************************)
EXTENDS Integers, Sequences, FiniteSets, TLC

\* ------------------------------------------------------------- bounds
NumChat == 2            \* /api/llm/chat requests
NumResp == 2            \* /api/voice-sessions/response requests
MaxVoiceSessions == 1   \* voice sessions ever created
NumJoiners == 2         \* concurrent join requests on the RTC store
MaxJoinCalls == 10      \* join requests issued on the live RTC sessions
MaxRtcSessions == 1     \* RTC sessions ever created
MaxRtcTicks == 2        \* clock steps taken by the RTC model
NumGranters == 2        \* grant requests on the OTP store
NumDeniers == 1         \* deny requests on the OTP store
MaxOtpTicks == 2        \* clock steps taken by the OTP model
NumConns == 3           \* WebSocket connections made to the relay
MaxFrames == 2          \* text frames read by the relay, over all connections
MaxRelayTicks == 1      \* clock steps taken by the relay model
MaxPairs == 2           \* pair rooms created
MaxCacheTicks == 3      \* clock steps taken by the validation cache model
MaxTtl == 2             \* largest ttl_seconds given to SessionVerifyCache::set

\* --------------------------------------------------- program constants
ChatTimeoutSecs == 30   \* llm_proxy.rs: Duration::from_secs(30)
VoiceExpirySecs == 60   \* voice_session.rs: elapsed.num_seconds() > 60
InitialUid == 1000      \* rtc_session.rs: AtomicU32::new(1000)
MaxParticipants == 8    \* rtc_session.rs: if current_count >= 8
RtcTtlHours == 4        \* rtc_session.rs: now + Duration::hours(4)
OtpTtlMinutes == 5      \* auth.rs: now + Duration::minutes(5)
RoomExpirySecs == 600   \* relay.rs: const ROOM_EXPIRY_SECS

\* One clock step of the voice model: the rendezvous timeout.
VoiceTickSecs == ChatTimeoutSecs

\* The code reads the clock only to take differences (now - last_activity, the
\* time since the timeout was armed), so the model keeps each timestamp as the
\* time elapsed since it, which stops growing once no comparison can tell.
VoiceAgeCap == VoiceExpirySecs + VoiceTickSecs

VARIABLES
    vsessions,   \* VoiceSessionStore.sessions: session id -> VoiceSession
    vwaiters,    \* VoiceSessionStore.waiters: session id -> Seq of senders
    vcreated,    \* number of voice sessions created so far (ids are fresh)
    chan,        \* the oneshot channel of each chat request
    chat,        \* the chat requests (llm_chat_handler tasks)
    vret,        \* what the latest trigger call returned
    resp,        \* the response requests (set_response callers)
    rnow,        \* wall clock read by the RTC store (Utc::now), hours
    rsessions,   \* RtcSessionStore.sessions: id -> RtcSessionInner
    rcreated,    \* number of RTC sessions created so far (ids are fresh)
    rmap,        \* holders of the RwLock around the sessions map
    rentry,      \* holders of the RwLock around each RtcSessionInner
    join,        \* the join requests (RtcSessionStore::join tasks)
    joinLog,     \* per session, the results of its joins in return order
    rget,        \* the get request
    rjan,        \* the RTC janitor (RtcSessionStore::cleanup_expired)
    onow,        \* wall clock read by the OTP handlers (Utc::now), minutes
    osessions,   \* SessionStore.sessions: id -> Session
    ocreated,    \* number of OTP sessions created so far (ids are fresh)
    grant,       \* the grant requests (grant_session_handler tasks)
    deny,        \* the deny requests (deny_session_handler tasks)
    ojan,        \* the OTP janitor (SessionStore::cleanup_expired)
    ostat,       \* the answer of the latest status request
    lnow,        \* clock read by the relay (Instant::now), seconds
    rooms,       \* RelayHub.rooms: code -> PairRoom
    lcreated,    \* number of create_pair requests served so far
    conn,        \* the WebSocket connections (handle_ws tasks)
    mq,          \* the mpsc channel of each connection: receiver alive, backlog
    wrote,       \* per connection, the frames its writer wrote to the socket
    lost,        \* the frames read while the other role's sink was absent
    ljan,        \* the relay janitor (RelayHub::cleanup_expired)
    cnow,        \* now_timestamp() of the validation cache, seconds
    centries,    \* SessionVerifyCache.cache: session id -> CachedSession
    cgot,        \* what the latest SessionVerifyCache::get returned
    cjan         \* the cache janitor (SessionVerifyCache::cleanup_expired)

voiceVars == <<vsessions, vwaiters, vcreated, chan, chat, resp, vret>>

rtcVars == <<rnow, rsessions, rcreated, rmap, rentry, join, joinLog, rget, rjan>>

otpVars == <<onow, osessions, ocreated, grant, deny, ojan, ostat>>

relayVars == <<lnow, rooms, lcreated, conn, mq, wrote, lost, ljan>>

cacheVars == <<cnow, centries, cgot, cjan>>

notVoice == <<rtcVars, otpVars, relayVars, cacheVars>>
notRtc == <<voiceVars, otpVars, relayVars, cacheVars>>
notOtp == <<voiceVars, rtcVars, relayVars, cacheVars>>
notRelay == <<voiceVars, rtcVars, otpVars, cacheVars>>
notCache == <<voiceVars, rtcVars, otpVars, relayVars>>

vars == <<voiceVars, rtcVars, otpVars, relayVars, cacheVars>>

\* ------------------------------------------------------------ helpers
None == "None"

Range(s) == {s[i] : i \in 1..Len(s)}

MapPut(m, k, v) == [x \in DOMAIN m \cup {k} |-> IF x = k THEN v ELSE m[x]]

MapRemove(m, k) == [x \in DOMAIN m \ {k} |-> m[x]]

\* =====================================================================
\* Voice sessions
\* =====================================================================
VoiceIds == 1..MaxVoiceSessions
ChatProcs == 1..NumChat
RespProcs == 1..NumResp
Texts == {"a", "b"}
Responses == {"x", "y"}

\* The payloads are opaque to the store: only whether two of them are equal
\* can matter, so successive requests carry alternating payloads.
TextOf(p) == IF p % 2 = 1 THEN "a" ELSE "b"
ResponseOf(r) == IF r % 2 = 1 THEN "x" ELSE "y"

\* VoiceSession::new
\* (idle = now - last_activity, so last_activity = now is idle = 0)
NewVoiceSession ==
    [state |-> "Accumulating", buffer |-> <<>>, response |-> None,
     idle |-> 0, request_count |-> 0]

\* VoiceSession::add_transcription
SessAddTranscription(s, text) ==
    [s EXCEPT !.buffer = Append(@, text), !.idle = 0]

SessTrigger_ClearsResponse(s) ==
    [s EXCEPT !.state = "Triggered", !.response = None, !.idle = 0]

\* VoiceSession::trigger
SessTrigger(s) == [s EXCEPT !.state = "Triggered", !.idle = 0]

RECURSIVE JoinWith(_, _)
\* [String]::join(sep); a string is the sequence of its pieces, the texts
\* being opaque, so the empty string is the empty sequence
JoinWith(texts, sep) ==
    IF texts = << >> THEN << >>
    ELSE IF Len(texts) = 1 THEN <<texts[1]>>
    ELSE <<texts[1], sep>> \o JoinWith(Tail(texts), sep)

SessGetAccumulatedText_NoSeparator(s) == s.buffer

\* VoiceSession::get_accumulated_text
SessGetAccumulatedText(s) == JoinWith(s.buffer, " ")

\* VoiceSession::set_response
SessSetResponse(s, r) ==
    [s EXCEPT !.response = r, !.state = "ResponseReady", !.idle = 0]

SessIsExpired_AtLimit(s) == s.idle >= VoiceExpirySecs

\* VoiceSession::is_expired
SessIsExpired(s) == s.idle > VoiceExpirySecs

\* VoiceSession::increment_requests
SessIncrementRequests(s) == [s EXCEPT !.request_count = @ + 1]

IdleChat == [pc |-> "idle", sid |-> 0, text |-> None, seen |-> None,
             waited |-> 0, cached |-> None, result |-> None, value |-> None]

\* (called: the requests waiting on the session when set_response was called)
IdleResp == [pc |-> "idle", sid |-> 0, val |-> None, called |-> {}, result |-> None]

ClosedChan == [st |-> "none", val |-> None]

VoiceInit ==
    /\ vsessions = << >>
    /\ vwaiters = << >>
    /\ vcreated = 0
    /\ chan = [p \in ChatProcs |-> ClosedChan]
    /\ chat = [p \in ChatProcs |-> IdleChat]
    /\ resp = [r \in RespProcs |-> IdleResp]
    /\ vret = [sid |-> 0, some |-> FALSE, text |-> << >>]

\* VoiceSessionStore::create, with the fresh uuid of create_voice_session_handler
VoiceCreate ==
    /\ vcreated < MaxVoiceSessions
    /\ vcreated' = vcreated + 1
    /\ vsessions' = MapPut(vsessions, vcreated + 1, NewVoiceSession)
    /\ UNCHANGED <<vwaiters, chan, chat, resp, vret, notVoice>>

\* VoiceSessionStore::trigger: Some(text) of the triggered session, or None
VoiceTrigger(id) ==
    /\ IF id \in DOMAIN vsessions
       THEN /\ vsessions' = [vsessions EXCEPT ![id] = SessTrigger(@)]
            /\ vret' = [sid |-> id, some |-> TRUE,
                        text |-> SessGetAccumulatedText(SessTrigger(vsessions[id]))]
       ELSE /\ vret' = [sid |-> id, some |-> FALSE, text |-> << >>]
            /\ UNCHANGED vsessions
    /\ UNCHANGED <<vwaiters, vcreated, chan, chat, resp, notVoice>>

\* VoiceSessionStore::delete (DELETE /api/voice-sessions/:id)
VoiceDelete(id) ==
    /\ id \in DOMAIN vsessions
    /\ vsessions' = MapRemove(vsessions, id)
    /\ UNCHANGED <<vwaiters, vcreated, chan, chat, resp, vret, notVoice>>

\* VoiceSessionStore::cleanup_expired
VoiceCleanupExpired ==
    /\ \E id \in DOMAIN vsessions : SessIsExpired(vsessions[id])
    /\ vsessions' = [id \in {i \in DOMAIN vsessions :
                                ~SessIsExpired(vsessions[i])}
                        |-> vsessions[id]]
    /\ UNCHANGED <<vwaiters, vcreated, chan, chat, resp, vret, notVoice>>

Min(a, b) == IF a < b THEN a ELSE b

\* The wall clock advances by one step: every elapsed time grows.
VoiceTick ==
    /\ vsessions' = [id \in DOMAIN vsessions |->
            [vsessions[id] EXCEPT !.idle = Min(@ + VoiceTickSecs, VoiceAgeCap)]]
    /\ chat' = [p \in ChatProcs |->
            IF chat[p].pc = "waiting"
            THEN [chat[p] EXCEPT !.waited = Min(@ + VoiceTickSecs, ChatTimeoutSecs)]
            ELSE chat[p]]
    /\ <<vsessions', chat'>> # <<vsessions, chat>>
    /\ UNCHANGED <<vwaiters, vcreated, chan, resp, vret, notVoice>>

\* The requests whose sender is in the waiter table of `id` and whose
\* receiver is still awaited.
LiveWaiters(id) ==
    IF id \in DOMAIN vwaiters
    THEN {p \in Range(vwaiters[id]) : chan[p].st = "open"}
    ELSE {}

\* ---- atem_response_handler -> VoiceSessionStore::set_response
\* (the requests are numbered as they arrive)
\* First critical section of set_response: the sessions write lock.
SetResponseStore(r, id, x) ==
    /\ resp[r].pc = "idle"
    /\ \A q \in RespProcs : q < r => resp[q].pc # "idle"
    /\ IF id \in DOMAIN vsessions
       THEN /\ vsessions' = [vsessions EXCEPT ![id] = SessSetResponse(@, x)]
            /\ resp' = [resp EXCEPT ![r] = [pc |-> "wake", sid |-> id, val |-> x,
                                            called |-> LiveWaiters(id),
                                            result |-> None]]
       ELSE /\ vsessions' = vsessions
            /\ resp' = [resp EXCEPT ![r] = [pc |-> "done", sid |-> id, val |-> None,
                                            called |-> {}, result |-> "NotFound"]]
    /\ UNCHANGED <<vwaiters, vcreated, chan, chat, vret, notVoice>>

\* (only the sender registered last is sent on)
SendAll_OnlyLast(senders, x) ==
    [p \in ChatProcs |->
        IF /\ senders # << >>
           /\ p = senders[Len(senders)]
           /\ chan[p].st = "open"
        THEN [st |-> "sent", val |-> x]
        ELSE chan[p]]

\* (sending stops at the first sender whose receiver is gone)
SendAll_StopsAtDropped(senders, x) ==
    [p \in ChatProcs |->
        IF /\ p \in Range(senders)
           /\ chan[p].st = "open"
           /\ \A i \in 1..Len(senders) :
                 chan[senders[i]].st # "open"
                 => \E j \in 1..Len(senders) : j < i /\ senders[j] = p
        THEN [st |-> "sent", val |-> x]
        ELSE chan[p]]

\* oneshot::Sender::send on every sender of a removed waiter list; the result
\* of a send whose receiver is gone is discarded
SendAll(senders, x) ==
    [p \in ChatProcs |->
        IF p \in Range(senders) /\ chan[p].st = "open"
        THEN [st |-> "sent", val |-> x]
        ELSE chan[p]]

\* Second critical section of set_response: the waiters write lock.
SetResponseWake(r) ==
    /\ resp[r].pc = "wake"
    /\ LET id == resp[r].sid IN
        IF id \in DOMAIN vwaiters
        THEN /\ chan' = SendAll(vwaiters[id], resp[r].val)
             /\ vwaiters' = MapRemove(vwaiters, id)
        ELSE UNCHANGED <<chan, vwaiters>>
    /\ resp' = [resp EXCEPT ![r].pc = "done", ![r].result = "Ok",
                            ![r].val = None, ![r].called = {}]
    /\ UNCHANGED <<vsessions, vcreated, chat, vret, notVoice>>

\* ---- llm_chat_handler (the requests are numbered as they arrive)
\* increment_requests
ChatIncrement(p, id, text) ==
    /\ chat[p].pc = "idle"
    /\ \A q \in ChatProcs : q < p => chat[q].pc # "idle"
    /\ chat' = [chat EXCEPT ![p].pc = "add", ![p].sid = id, ![p].text = text]
    /\ vsessions' = IF id \in DOMAIN vsessions
                    THEN [vsessions EXCEPT ![id] = SessIncrementRequests(@)]
                    ELSE vsessions
    /\ UNCHANGED <<vwaiters, vcreated, chan, resp, vret, notVoice>>

\* add_transcription
ChatAddTranscription(p) ==
    /\ chat[p].pc = "add"
    /\ LET id == chat[p].sid IN
        vsessions' = IF id \in DOMAIN vsessions
                     THEN [vsessions EXCEPT
                             ![id] = SessAddTranscription(@, chat[p].text)]
                     ELSE vsessions
    /\ chat' = [chat EXCEPT ![p].pc = "get_state", ![p].text = None]
    /\ UNCHANGED <<vwaiters, vcreated, chan, resp, vret, notVoice>>

GetState_DefaultsToAccumulating(id) ==
    IF id \in DOMAIN vsessions THEN vsessions[id].state ELSE "Accumulating"

\* VoiceSessionStore::get_state
GetState(id) == IF id \in DOMAIN vsessions THEN vsessions[id].state ELSE None

\* get_state and the match on it
ChatGetState(p) ==
    /\ chat[p].pc = "get_state"
    /\ LET st == GetState(chat[p].sid) IN
        chat' = [chat EXCEPT
            ![p].seen = st,
            ![p].pc = CASE st = "Accumulating" -> "done"
                        [] st = "Triggered" -> "register"
                        [] st = "ResponseReady" -> "cached"
                        [] OTHER -> "done",
            ![p].result = CASE st = "Accumulating" -> "Empty"
                            [] st = None -> "NotFound"
                            [] OTHER -> None]
    /\ UNCHANGED <<vsessions, vwaiters, vcreated, chan, resp, vret, notVoice>>

\* VoiceSessionStore::register_waiter, then the 30 s timeout starts
ChatRegisterWaiter(p) ==
    /\ chat[p].pc = "register"
    /\ LET id == chat[p].sid
           old == IF id \in DOMAIN vwaiters THEN vwaiters[id] ELSE << >>
       IN vwaiters' = MapPut(vwaiters, id, Append(old, p))
    /\ chan' = [chan EXCEPT ![p] = [st |-> "open", val |-> None]]
    /\ chat' = [chat EXCEPT ![p].pc = "waiting", ![p].waited = 0]
    /\ UNCHANGED <<vsessions, vcreated, resp, vret, notVoice>>

\* Ok(Ok(response_text)): the receiver completes with the value sent
ChatReceive(p) ==
    /\ chat[p].pc = "waiting"
    /\ chan[p].st = "sent"
    /\ chat' = [chat EXCEPT ![p].pc = "done", ![p].result = "Response",
                            ![p].value = chan[p].val, ![p].waited = 0]
    /\ chan' = [chan EXCEPT ![p].st = "received"]
    /\ UNCHANGED <<vsessions, vwaiters, vcreated, resp, vret, notVoice>>

TimeoutElapsed_Never(waited) == FALSE

\* tokio::time::timeout(Duration::from_secs(30), waiter): the deadline
TimeoutElapsed(waited) == waited >= ChatTimeoutSecs

\* Err(_): the timeout elapses first; the receiver is dropped
ChatTimeout(p) ==
    /\ chat[p].pc = "waiting"
    /\ chan[p].st = "open"
    /\ TimeoutElapsed(chat[p].waited)
    /\ chat' = [chat EXCEPT ![p].pc = "done", ![p].result = "GatewayTimeout",
                            ![p].waited = 0]
    /\ chan' = [chan EXCEPT ![p].st = "rx_dropped"]
    /\ UNCHANGED <<vsessions, vwaiters, vcreated, resp, vret, notVoice>>

\* ResponseReady arm: get, and the test of session.response
ChatGetCached(p) ==
    /\ chat[p].pc = "cached"
    /\ LET id == chat[p].sid IN
        IF id \in DOMAIN vsessions /\ vsessions[id].response # None
        THEN chat' = [chat EXCEPT ![p].pc = "delete",
                                  ![p].cached = vsessions[id].response]
        ELSE chat' = [chat EXCEPT ![p].pc = "done", ![p].result = "Internal"]
    /\ UNCHANGED <<vsessions, vwaiters, vcreated, chan, resp, vret, notVoice>>

\* ResponseReady arm: delete, then the cached response is returned
ChatDeleteCached(p) ==
    /\ chat[p].pc = "delete"
    /\ vsessions' = IF chat[p].sid \in DOMAIN vsessions
                    THEN MapRemove(vsessions, chat[p].sid)
                    ELSE vsessions
    /\ chat' = [chat EXCEPT ![p].pc = "done", ![p].result = "Response",
                            ![p].value = chat[p].cached, ![p].cached = None]
    /\ UNCHANGED <<vwaiters, vcreated, chan, resp, vret, notVoice>>

VoiceNext ==
    \/ VoiceCreate
    \/ \E id \in VoiceIds : VoiceTrigger(id)
    \/ \E id \in VoiceIds : VoiceDelete(id)
    \/ VoiceCleanupExpired
    \/ VoiceTick
    \/ \E r \in RespProcs, id \in VoiceIds : SetResponseStore(r, id, ResponseOf(r))
    \/ \E r \in RespProcs : SetResponseWake(r)
    \/ \E p \in ChatProcs, id \in VoiceIds : ChatIncrement(p, id, TextOf(p))
    \/ \E p \in ChatProcs : ChatAddTranscription(p)
    \/ \E p \in ChatProcs : ChatGetState(p)
    \/ \E p \in ChatProcs : ChatRegisterWaiter(p)
    \/ \E p \in ChatProcs : ChatReceive(p)
    \/ \E p \in ChatProcs : ChatTimeout(p)
    \/ \E p \in ChatProcs : ChatGetCached(p)
    \/ \E p \in ChatProcs : ChatDeleteCached(p)

\* =====================================================================
\* RTC sessions
\* =====================================================================
RtcIds == 1..MaxRtcSessions
JoinProcs == 1..NumJoiners
Names == {"ann"}
Full == 0          \* a join refused with "Session is full" (uids are >= 1000)

JoinTask(p) == <<"join", p>>
GetTask == <<"get", 0>>
JanitorTask == <<"janitor", 0>>

FreeLock == [readers |-> {}, writer |-> {}]

DropRead_Leaks(l, task) == l

\* a read guard goes out of scope
DropRead(l, task) == [l EXCEPT !.readers = @ \ {task}]

\* tokio RwLock: a reader is admitted while no writer holds the lock
CanRead(l) == l.writer = {}

\* tokio RwLock: a writer is admitted while nobody holds the lock
CanWrite(l) == l.writer = {} /\ l.readers = {}

\* RtcSessionStore::create: the RtcSessionInner it inserts
NewRtcSession(t) ==
    [uid_counter |-> InitialUid, participants |-> << >>,
     expires_at |-> t + RtcTtlHours]

FetchAdd_NoIncrement(c) == c

\* AtomicU32::fetch_add(1): the counter it leaves (it stays far below 2^32:
\* a session takes at most MaxParticipants increments)
FetchAdd(c) == c + 1

FetchAddReturns_NewValue(c) == c + 1

\* AtomicU32::fetch_add(1): the value it returns, the counter before the add
FetchAddReturns(c) == c

SessionFull_OffByOne(count) == count > MaxParticipants

\* the cap test of join
SessionFull(count) == count >= MaxParticipants

RtcExpired_AtExpiry(t, inner) == t >= inner.expires_at

\* the expiry test of cleanup_expired
RtcExpired(t, inner) == t > inner.expires_at

IdleJoin == [pc |-> "idle", sid |-> 0, name |-> None]

IdleJanitor == [pc |-> "idle", now |-> 0, todo |-> {}, expired_ids |-> {}]

RtcInit ==
    /\ rnow = 0
    /\ rsessions = << >>
    /\ rcreated = 0
    /\ rmap = FreeLock
    /\ rentry = [id \in RtcIds |-> FreeLock]
    /\ join = [p \in JoinProcs |-> IdleJoin]
    /\ joinLog = [id \in RtcIds |-> << >>]
    /\ rget = [pc |-> "idle", sid |-> 0]
    /\ rjan = IdleJanitor

\* The wall clock advances.
RtcTick ==
    /\ rnow < MaxRtcTicks * RtcTtlHours
    /\ rnow' = rnow + RtcTtlHours
    /\ UNCHANGED <<rsessions, rcreated, rmap, rentry, join, joinLog,
                   rget, rjan, notRtc>>

\* RtcSessionStore::create under the map's write lock, with the fresh uuid of
\* create_rtc_session_handler
RtcCreate ==
    /\ rcreated < MaxRtcSessions
    /\ CanWrite(rmap)
    /\ rcreated' = rcreated + 1
    /\ rsessions' = MapPut(rsessions, rcreated + 1, NewRtcSession(rnow))
    /\ UNCHANGED <<rnow, rmap, rentry, join, joinLog, rget, rjan, notRtc>>

\* RtcSessionStore::delete under the map's write lock
RtcDelete(id) ==
    /\ id \in DOMAIN rsessions
    /\ CanWrite(rmap)
    /\ rsessions' = MapRemove(rsessions, id)
    /\ joinLog' = [joinLog EXCEPT ![id] = << >>]
    /\ UNCHANGED <<rnow, rcreated, rmap, rentry, join, rget, rjan, notRtc>>

\* ---- RtcSessionStore::get
\* sessions.read().await and the lookup
GetLockMap(id) ==
    /\ rget.pc = "idle"
    /\ CanRead(rmap)
    /\ id \in DOMAIN rsessions
    /\ rmap' = [rmap EXCEPT !.readers = @ \cup {GetTask}]
    /\ rget' = [pc |-> "entry", sid |-> id]
    /\ UNCHANGED <<rnow, rsessions, rcreated, rentry, join, joinLog,
                   rjan, notRtc>>

\* inner.read().await
GetLockEntry ==
    /\ rget.pc = "entry"
    /\ CanRead(rentry[rget.sid])
    /\ rentry' = [rentry EXCEPT ![rget.sid].readers = @ \cup {GetTask}]
    /\ rget' = [rget EXCEPT !.pc = "snapshot"]
    /\ UNCHANGED <<rnow, rsessions, rcreated, rmap, join, joinLog,
                   rjan, notRtc>>

\* inner.snapshot(); both guards are dropped
GetSnapshot ==
    /\ rget.pc = "snapshot"
    /\ rentry' = [rentry EXCEPT ![rget.sid].readers = @ \ {GetTask}]
    /\ rmap' = DropRead(rmap, GetTask)
    /\ rget' = [pc |-> "idle", sid |-> 0]
    /\ UNCHANGED <<rnow, rsessions, rcreated, join, joinLog, rjan,
                   notRtc>>

\* ---- RtcSessionStore::join
\* the joins on the sessions of the map that have returned or are under way
RECURSIVE JoinsReturned(_)
JoinsReturned(ids) ==
    IF ids = {} THEN 0
    ELSE LET id == CHOOSE i \in ids : TRUE
         IN Len(joinLog[id]) + JoinsReturned(ids \ {id})

JoinsIssued ==
    JoinsReturned(RtcIds) + Cardinality({q \in JoinProcs : join[q].pc # "idle"})

\* sessions.read().await and the lookup; "Session not found" drops the guard
JoinLockMap(p, id, name) ==
    /\ join[p].pc = "idle"
    /\ JoinsIssued < MaxJoinCalls
    /\ CanRead(rmap)
    /\ IF id \in DOMAIN rsessions
       THEN /\ rmap' = [rmap EXCEPT !.readers = @ \cup {JoinTask(p)}]
            /\ join' = [join EXCEPT ![p] = [pc |-> "entry", sid |-> id,
                                            name |-> name]]
       ELSE UNCHANGED <<rmap, join>>
    /\ UNCHANGED <<rnow, rsessions, rcreated, rentry, joinLog, rget, rjan, notRtc>>

\* inner_arc.write().await
JoinLockEntry(p) ==
    /\ join[p].pc = "entry"
    /\ CanWrite(rentry[join[p].sid])
    /\ rentry' = [rentry EXCEPT ![join[p].sid].writer = {JoinTask(p)}]
    /\ join' = [join EXCEPT ![p].pc = "body"]
    /\ UNCHANGED <<rnow, rsessions, rcreated, rmap, joinLog, rget, rjan, notRtc>>

\* the session after a successful join: fetch_add, push
JoinedSession(inner, name) ==
    [inner EXCEPT
        !.uid_counter = FetchAdd(@),
        !.participants = Append(@, [uid |-> FetchAddReturns(inner.uid_counter),
                                    display_name |-> name])]

RefusedSession_CounterTaken(inner) ==
    [inner EXCEPT !.uid_counter = FetchAdd(@)]

\* the session after a refused join: the error is returned before fetch_add
\* and push are reached
RefusedSession(inner) == inner

\* the body of join under both guards, which are then dropped
JoinBody(p) ==
    /\ join[p].pc = "body"
    /\ LET id == join[p].sid
           inner == rsessions[id]
       IN IF SessionFull(Len(inner.participants))
          THEN /\ joinLog' = [joinLog EXCEPT ![id] = Append(@, Full)]
               /\ rsessions' = [rsessions EXCEPT ![id] = RefusedSession(inner)]
          ELSE /\ rsessions' = [rsessions EXCEPT
                                   ![id] = JoinedSession(inner, join[p].name)]
               /\ joinLog' = [joinLog EXCEPT
                        ![id] = Append(@, FetchAddReturns(inner.uid_counter))]
    /\ rentry' = [rentry EXCEPT ![join[p].sid].writer = {}]
    /\ rmap' = DropRead(rmap, JoinTask(p))
    /\ join' = [join EXCEPT ![p] = IdleJoin]
    /\ UNCHANGED <<rnow, rcreated, rget, rjan, notRtc>>

\* ---- RtcSessionStore::cleanup_expired
\* let now = Utc::now()
CleanupReadClock ==
    /\ rjan.pc = "idle"
    /\ rjan' = [rjan EXCEPT !.pc = "lock", !.now = rnow]
    /\ UNCHANGED <<rnow, rsessions, rcreated, rmap, rentry, join, joinLog, rget, notRtc>>

\* sessions.write().await
CleanupLockMap ==
    /\ rjan.pc = "lock"
    /\ CanWrite(rmap)
    /\ rmap' = [rmap EXCEPT !.writer = {JanitorTask}]
    /\ rjan' = [rjan EXCEPT !.pc = "scan", !.todo = DOMAIN rsessions]
    /\ UNCHANGED <<rnow, rsessions, rcreated, rentry, join, joinLog,
                   rget, notRtc>>

\* one turn of the first loop: inner_arc.read().await and the expiry test
CleanupCheck(id) ==
    /\ rjan.pc = "scan"
    /\ id \in rjan.todo
    /\ CanRead(rentry[id])
    /\ rjan' = [rjan EXCEPT
            !.todo = @ \ {id},
            !.expired_ids = IF RtcExpired(rjan.now, rsessions[id])
                            THEN @ \cup {id} ELSE @]
    /\ UNCHANGED <<rnow, rsessions, rcreated, rmap, rentry, join, joinLog, rget, notRtc>>

\* the second loop, and the write guard is dropped
CleanupRemove ==
    /\ rjan.pc = "scan"
    /\ rjan.todo = {}
    /\ rsessions' = [id \in DOMAIN rsessions \ rjan.expired_ids |-> rsessions[id]]
    /\ joinLog' = [id \in RtcIds |-> IF id \in rjan.expired_ids THEN << >>
                                      ELSE joinLog[id]]
    /\ rmap' = [rmap EXCEPT !.writer = {}]
    /\ rjan' = IdleJanitor
    /\ UNCHANGED <<rnow, rcreated, rentry, join, rget, notRtc>>

RtcNext ==
    \/ RtcTick
    \/ RtcCreate
    \/ \E id \in RtcIds : RtcDelete(id)
    \/ \E id \in RtcIds : GetLockMap(id)
    \/ GetLockEntry
    \/ GetSnapshot
    \/ \E p \in JoinProcs, id \in RtcIds, n \in Names : JoinLockMap(p, id, n)
    \/ \E p \in JoinProcs : JoinLockEntry(p)
    \/ \E p \in JoinProcs : JoinBody(p)
    \/ CleanupReadClock
    \/ CleanupLockMap
    \/ \E id \in RtcIds : CleanupCheck(id)
    \/ CleanupRemove

\* =====================================================================
\* OTP sessions
\* =====================================================================
\* Every operation of SessionStore but the sweep names one id, and the sweep
\* tests each record by itself, so the model follows the one session the
\* requests compete for.
OtpIds == {1}
GrantProcs == 1..NumGranters
DenyProcs == 1..NumDeniers
\* auth::generate_otp draws 8 random digits; the code it drew, and the codes
\* a grant request may carry
GeneratedOtp == "10000000"
OtpCodes == {GeneratedOtp, "99999999"}

\* auth::generate_session_token draws 32 random bytes: the token of request p
\* differs from that of every other request
GenerateSessionToken(p) == p

\* auth::create_session (Option<String> is the empty or a one-element set)
NewOtpSession(otp, t) ==
    [otp |-> otp, status |-> "Pending", token |-> {},
     expires_at |-> t + OtpTtlMinutes]

ValidateOtp_RejectsAll(session, otp, t) == FALSE

ValidateOtp_IgnoresExpiry(session, otp, t) == session.otp = otp

\* auth::validate_otp; the clock is read only when the OTP matches
ValidateOtp(session, otp, t) ==
    IF session.otp # otp THEN FALSE
    ELSE IF t > session.expires_at THEN FALSE
    ELSE TRUE

GrantedSession_NoToken(session, tok) == [session EXCEPT !.status = "Granted"]

\* grant_session_handler: the record it passes to update
GrantedSession(session, tok) ==
    [session EXCEPT !.status = "Granted", !.token = {tok}]

\* deny_session_handler: the record it passes to update
DeniedSession(session) == [session EXCEPT !.status = "Denied"]

OtpSwept_AnyStatus(t, session) == t > session.expires_at

\* SessionStore::cleanup_expired: the records retain drops
OtpSwept(t, session) == t > session.expires_at /\ session.status = "Pending"

StatusSeen_AtExpiry(t, session) ==
    IF session.status = "Pending" /\ t >= session.expires_at
    THEN "Expired" ELSE session.status

\* get_session_status_handler: the status it reports for the copy get returned
StatusSeen(t, session) ==
    IF session.status = "Pending" /\ t > session.expires_at
    THEN "Expired" ELSE session.status

\* get_session_status_handler: SessionStatusResponse, or 404
StatusAnswer(t, id, sessions) ==
    IF id \notin DOMAIN sessions
    THEN [sid |-> id, status |-> "NotFound", token |-> {}]
    ELSE [sid |-> id, status |-> StatusSeen(t, sessions[id]),
          token |-> IF StatusSeen(t, sessions[id]) = "Granted"
                    THEN sessions[id].token ELSE {}]

NoAnswer == [sid |-> 0, status |-> None, token |-> {}]

NoSession == [otp |-> None, status |-> None, token |-> {}, expires_at |-> 0]

\* a grant request: its position, path and body, the copy that get returned,
\* whether validate_otp found the OTPs equal, its answer and returned token
IdleGrant == [pc |-> "idle", sid |-> 0, otp |-> None, session |-> NoSession,
              matched |-> FALSE, result |-> None, token |-> {}]

IdleDeny == [pc |-> "idle", sid |-> 0, session |-> NoSession, result |-> None]

OtpInit ==
    /\ onow = 0
    /\ osessions = << >>
    /\ ocreated = 0
    /\ grant = [p \in GrantProcs |-> IdleGrant]
    /\ deny = [p \in DenyProcs |-> IdleDeny]
    /\ ojan = [pc |-> "idle", now |-> 0]
    /\ ostat = NoAnswer

\* The wall clock advances.
OtpTick ==
    /\ onow < MaxOtpTicks * OtpTtlMinutes
    /\ onow' = onow + OtpTtlMinutes
    /\ UNCHANGED <<osessions, ocreated, grant, deny, ojan, ostat, notOtp>>

\* create_session_handler: auth::create_session, then SessionStore::create
OtpCreate ==
    /\ ocreated < Cardinality(OtpIds)
    /\ ocreated' = ocreated + 1
    /\ osessions' = MapPut(osessions, ocreated + 1, NewOtpSession(GeneratedOtp, onow))
    /\ UNCHANGED <<onow, grant, deny, ojan, ostat, notOtp>>

\* ---- grant_session_handler (the requests are numbered as they arrive)
\* SessionStore::get, and the test of the status of the copy it returns
GrantGet(p, id, otp) ==
    /\ grant[p].pc = "idle"
    /\ \A q \in GrantProcs : q < p => grant[q].pc # "idle"
    /\ IF id \notin DOMAIN osessions
       THEN grant' = [grant EXCEPT ![p] = [IdleGrant EXCEPT
                        !.pc = "done", !.sid = id, !.result = "NotFound"]]
       ELSE IF osessions[id].status # "Pending"
       THEN grant' = [grant EXCEPT ![p] = [IdleGrant EXCEPT
                        !.pc = "done", !.sid = id, !.result = "Conflict"]]
       ELSE grant' = [grant EXCEPT ![p] = [IdleGrant EXCEPT
                        !.pc = "validate", !.sid = id, !.otp = otp,
                        !.session = osessions[id]]]
    /\ UNCHANGED <<onow, osessions, ocreated, deny, ojan, ostat, notOtp>>

\* auth::validate_otp on the copy. When it holds, the copy is made Granted
\* with a fresh token (auth::generate_session_token). When it fails, the
\* handler answers Gone if the clock is past expires_at and Unauthorized
\* otherwise. No await separates the two reads of the clock, and a clock that
\* validate_otp saw past expires_at is still past it at the second read, so
\* one reading stands for both.
GrantValidate(p) ==
    /\ grant[p].pc = "validate"
    /\ IF ValidateOtp(grant[p].session, grant[p].otp, onow)
       THEN grant' = [grant EXCEPT
                    ![p].pc = "update",
                    ![p].matched = TRUE,
                    ![p].token = {GenerateSessionToken(p)}]
       ELSE grant' = [grant EXCEPT ![p] = [IdleGrant EXCEPT
                    !.pc = "done",
                    !.sid = grant[p].sid,
                    !.matched = (grant[p].session.otp = grant[p].otp),
                    !.result = IF onow > grant[p].session.expires_at
                               THEN "Gone" ELSE "Unauthorized"]]
    /\ UNCHANGED <<onow, osessions, ocreated, deny, ojan, ostat, notOtp>>

\* SessionStore::update with the Granted copy; the token is returned
GrantUpdate(p) ==
    /\ grant[p].pc = "update"
    /\ \E tok \in grant[p].token :
        osessions' = MapPut(osessions, grant[p].sid,
                            GrantedSession(grant[p].session, tok))
    /\ grant' = [grant EXCEPT ![p].pc = "done", ![p].result = "Ok",
                              ![p].otp = None, ![p].session = NoSession]
    /\ UNCHANGED <<onow, ocreated, deny, ojan, ostat, notOtp>>

\* ---- deny_session_handler (the requests are numbered as they arrive)
\* SessionStore::get, and the test of the status of the copy it returns
DenyGet(p, id) ==
    /\ deny[p].pc = "idle"
    /\ \A q \in DenyProcs : q < p => deny[q].pc # "idle"
    /\ IF id \notin DOMAIN osessions
       THEN deny' = [deny EXCEPT ![p] = [IdleDeny EXCEPT
                        !.pc = "done", !.sid = id, !.result = "NotFound"]]
       ELSE IF osessions[id].status # "Pending"
       THEN deny' = [deny EXCEPT ![p] = [IdleDeny EXCEPT
                        !.pc = "done", !.sid = id, !.result = "Conflict"]]
       ELSE deny' = [deny EXCEPT ![p] = [IdleDeny EXCEPT
                        !.pc = "update", !.sid = id,
                        !.session = osessions[id]]]
    /\ UNCHANGED <<onow, osessions, ocreated, grant, ojan, ostat, notOtp>>

\* SessionStore::update with the Denied copy
DenyUpdate(p) ==
    /\ deny[p].pc = "update"
    /\ osessions' = MapPut(osessions, deny[p].sid, DeniedSession(deny[p].session))
    /\ deny' = [deny EXCEPT ![p].pc = "done", ![p].result = "Ok",
                            ![p].session = NoSession]
    /\ UNCHANGED <<onow, ocreated, grant, ojan, ostat, notOtp>>

\* ---- get_session_status_handler: SessionStore::get, then the clock
StatusRead(id) ==
    /\ ostat' = StatusAnswer(onow, id, osessions)
    /\ UNCHANGED <<onow, osessions, ocreated, grant, deny, ojan, notOtp>>

\* ---- SessionStore::cleanup_expired
\* let now = Utc::now()
OtpCleanupReadClock ==
    /\ ojan.pc = "idle"
    /\ ojan' = [pc |-> "sweep", now |-> onow]
    /\ UNCHANGED <<onow, osessions, ocreated, grant, deny, ostat, notOtp>>

\* sessions.write().await; sessions.retain(..)
OtpCleanupSweep ==
    /\ ojan.pc = "sweep"
    /\ osessions' = [id \in {i \in DOMAIN osessions :
                                ~OtpSwept(ojan.now, osessions[i])}
                        |-> osessions[id]]
    /\ ojan' = [pc |-> "idle", now |-> 0]
    /\ UNCHANGED <<onow, ocreated, grant, deny, ostat, notOtp>>

OtpNext ==
    \/ OtpTick
    \/ OtpCreate
    \/ \E p \in GrantProcs, id \in OtpIds, otp \in OtpCodes : GrantGet(p, id, otp)
    \/ \E p \in GrantProcs : GrantValidate(p)
    \/ \E p \in GrantProcs : GrantUpdate(p)
    \/ \E p \in DenyProcs, id \in OtpIds : DenyGet(p, id)
    \/ \E p \in DenyProcs : DenyUpdate(p)
    \/ \E id \in OtpIds : StatusRead(id)
    \/ OtpCleanupReadClock
    \/ OtpCleanupSweep

\* =====================================================================
\* Pair relay
\* =====================================================================
\* Every operation of the hub but the sweep names one code, and the sweep
\* tests each room by itself, so the model follows one room.
PairCodes == {1}
Conns == 1..NumConns
Roles == {"atem", "astation"}

\* WsQuery.role is any string: the two roles and one that is neither
WsRoles == Roles \cup {"viewer"}

\* CreatePairRequest.hostname of the n-th request
HostnameOf(n) == IF n % 2 = 1 THEN "h1" ELSE "h2"

\* Option<UnboundedSender>: the connection whose channel the sender feeds
NoSink == 0

\* create_pair_handler: the room it inserts
NewPairRoom(h, t) ==
    [hostname |-> h, atem_tx |-> NoSink, astation_tx |-> NoSink,
     created_at |-> t]

\* create_pair_handler: rooms.insert(code, room)
PutRoom(rms, code, room) == MapPut(rms, code, room)

\* now.duration_since(room.created_at).as_secs() (zero when created_at is later)
RoomAge(now, room) == IF now >= room.created_at THEN now - room.created_at ELSE 0

RoomKept_AnySink(now, room) ==
    \/ RoomAge(now, room) < RoomExpirySecs
    \/ room.astation_tx # NoSink
    \/ room.atem_tx # NoSink

RoomKept_IgnoresSink(now, room) == RoomAge(now, room) < RoomExpirySecs

\* RelayHub::cleanup_expired: the rooms retain keeps
RoomKept(now, room) ==
    RoomAge(now, room) < RoomExpirySecs \/ room.astation_tx # NoSink

\* pair_status_handler: paired
Paired(room) == room.astation_tx # NoSink

\* handle_ws: the room with this role's sender stored
WithSink(room, role, c) ==
    IF role = "atem" THEN [room EXCEPT !.atem_tx = c]
                     ELSE [room EXCEPT !.astation_tx = c]

PeerSink_SameRole(rms, code, role) ==
    IF code \in DOMAIN rms
    THEN IF role = "atem" THEN rms[code].atem_tx ELSE rms[code].astation_tx
    ELSE NoSink

\* handle_ws: the other side's sender, looked up for one frame
PeerSink(rms, code, role) ==
    IF code \in DOMAIN rms
    THEN IF role = "atem" THEN rms[code].astation_tx ELSE rms[code].atem_tx
    ELSE NoSink

ExitRooms_KeepsSink(rms, code, role) ==
    IF code \in DOMAIN rms /\ PeerSink(rms, code, role) = NoSink
    THEN [k \in DOMAIN rms \ {code} |-> rms[k]]
    ELSE rms

\* handle_ws: the cleanup after the reader loop
ExitRooms(rms, code, role) ==
    IF code \notin DOMAIN rms THEN rms
    ELSE LET room == WithSink(rms[code], role, NoSink)
         IN IF room.atem_tx = NoSink /\ room.astation_tx = NoSink
            THEN [k \in DOMAIN rms \ {code} |-> rms[k]]
            ELSE [rms EXCEPT ![code] = room]

Enqueue_AtFront(ch, f) ==
    IF ch.live THEN [ch EXCEPT !.buf = <<f>> \o @] ELSE ch

\* UnboundedSender::send: the frame joins the backlog, or is lost when the
\* receiver is gone (the error is discarded)
Enqueue(ch, f) ==
    IF ch.live THEN [ch EXCEPT !.buf = Append(@, f)] ELSE ch

NoChannel == [live |-> FALSE, buf |-> << >>]

\* a connection: its position in handle_ws, the code and role of its request,
\* the frames it has read, the sender it cloned for the frame in hand and how
\* it ended; swept is an observation, not program state: the janitor removed
\* the room under the connection's code while its reader was running
IdleConn == [pc |-> "idle", code |-> 0, role |-> None, nread |-> 0,
             other |-> NoSink, result |-> None, swept |-> FALSE]

RelayInit ==
    /\ lnow = 0
    /\ rooms = << >>
    /\ lcreated = 0
    /\ conn = [c \in Conns |-> IdleConn]
    /\ mq = [c \in Conns |-> NoChannel]
    /\ wrote = [c \in Conns |-> << >>]
    /\ lost = {}
    /\ ljan = [pc |-> "idle", now |-> 0]

\* the clock advances by the expiry period
RelayTick ==
    /\ lnow < MaxRelayTicks * RoomExpirySecs
    /\ lnow' = lnow + RoomExpirySecs
    /\ UNCHANGED <<rooms, lcreated, conn, mq, wrote, lost, ljan>>

\* create_pair_handler: a room without sinks is inserted under the code
\* that generate_pairing_code drew
CreatePair(code) ==
    /\ lcreated < MaxPairs
    /\ lcreated' = lcreated + 1
    /\ rooms' = PutRoom(rooms, code,
                        NewPairRoom(HostnameOf(lcreated + 1), lnow))
    /\ UNCHANGED <<lnow, conn, mq, wrote, lost, ljan>>

\* ws_handler: 404 when the room is missing, otherwise the upgrade
WsUpgrade(c, code, role) ==
    /\ conn[c].pc = "idle"
    /\ \A d \in Conns : d < c => conn[d].pc # "idle"
    /\ conn' = [conn EXCEPT ![c] =
                  IF code \in DOMAIN rooms
                  THEN [@ EXCEPT !.pc = "setup", !.code = code, !.role = role]
                  ELSE [@ EXCEPT !.pc = "done", !.code = code, !.role = role,
                                 !.result = "NotFound"]]
    /\ UNCHANGED <<lnow, rooms, lcreated, mq, wrote, lost, ljan>>

\* handle_ws: the channel is made and its sender stored under the role,
\* or the task returns when the room is gone
WsRegister(c) ==
    /\ conn[c].pc = "setup"
    /\ IF conn[c].code \notin DOMAIN rooms
       THEN /\ conn' = [conn EXCEPT ![c].pc = "done", ![c].result = "RoomGone"]
            /\ UNCHANGED <<rooms, mq>>
       ELSE IF conn[c].role \notin Roles
       THEN /\ conn' = [conn EXCEPT ![c].pc = "done",
                                    ![c].result = "UnknownRole"]
            /\ UNCHANGED <<rooms, mq>>
       ELSE /\ rooms' = [rooms EXCEPT ![conn[c].code] =
                            WithSink(@, conn[c].role, c)]
            /\ mq' = [mq EXCEPT ![c] = [live |-> TRUE, buf |-> << >>]]
            /\ conn' = [conn EXCEPT ![c].pc = "reading"]
    /\ UNCHANGED <<lnow, lcreated, wrote, lost, ljan>>

\* the number of text frames the readers of a set of connections have read
RECURSIVE FramesRead(_)
FramesRead(S) ==
    IF S = {} THEN 0
    ELSE LET c == CHOOSE x \in S : TRUE
         IN conn[c].nread + FramesRead(S \ {c})

\* handle_ws, reader loop: a text frame is read and the other role's sender
\* is cloned under the read lock; without one the frame is dropped
WsLookup(c) ==
    /\ conn[c].pc = "reading"
    /\ FramesRead(Conns) < MaxFrames
    /\ LET other == PeerSink(rooms, conn[c].code, conn[c].role)
       IN /\ conn' = [conn EXCEPT ![c].nread = @ + 1,
                                  ![c].other = other,
                                  ![c].pc = IF other = NoSink THEN "reading"
                                                             ELSE "send"]
          /\ lost' = IF other = NoSink
                     THEN lost \cup {<<c, conn[c].nread + 1>>}
                     ELSE lost
    /\ UNCHANGED <<lnow, rooms, lcreated, mq, wrote, ljan>>

\* handle_ws, reader loop: the frame is sent on the cloned sender
WsSend(c) ==
    /\ conn[c].pc = "send"
    /\ mq' = [mq EXCEPT ![conn[c].other] = Enqueue(@, <<c, conn[c].nread>>)]
    /\ conn' = [conn EXCEPT ![c].pc = "reading", ![c].other = NoSink]
    /\ UNCHANGED <<lnow, rooms, lcreated, wrote, lost, ljan>>

\* handle_ws, writer task: the oldest frame of the backlog goes to the socket
WsWrite(c) ==
    /\ mq[c].live
    /\ mq[c].buf # << >>
    /\ wrote' = [wrote EXCEPT ![c] = Append(@, Head(mq[c].buf))]
    /\ mq' = [mq EXCEPT ![c].buf = Tail(@)]
    /\ UNCHANGED <<lnow, rooms, lcreated, conn, lost, ljan>>

\* handle_ws: the reader loop ends (close frame or error) and the cleanup
\* clears this role's sink and removes the room when both are absent
WsExit(c) ==
    /\ conn[c].pc = "reading"
    /\ rooms' = ExitRooms(rooms, conn[c].code, conn[c].role)
    /\ conn' = [conn EXCEPT ![c].pc = "abort", ![c].swept = FALSE]
    /\ UNCHANGED <<lnow, lcreated, mq, wrote, lost, ljan>>

\* handle_ws: write_task.abort() drops the receiver and its backlog
WsAbort(c) ==
    /\ conn[c].pc = "abort"
    /\ mq' = [mq EXCEPT ![c] = NoChannel]
    /\ conn' = [conn EXCEPT ![c].pc = "done", ![c].result = "Closed"]
    /\ UNCHANGED <<lnow, rooms, lcreated, wrote, lost, ljan>>

\* RelayHub::cleanup_expired: the clock is read before the lock is taken
RelayCleanupStart ==
    /\ ljan.pc = "idle"
    /\ ljan' = [pc |-> "sweep", now |-> lnow]
    /\ UNCHANGED <<lnow, rooms, lcreated, conn, mq, wrote, lost>>

\* RelayHub::cleanup_expired: retain under the write lock
RelayCleanupSweep ==
    /\ ljan.pc = "sweep"
    /\ rooms' = [k \in {x \in DOMAIN rooms : RoomKept(ljan.now, rooms[x])}
                   |-> rooms[k]]
    /\ conn' = [c \in Conns |->
                  IF /\ conn[c].pc \in {"reading", "send"}
                     /\ conn[c].code \in DOMAIN rooms
                     /\ ~RoomKept(ljan.now, rooms[conn[c].code])
                  THEN [conn[c] EXCEPT !.swept = TRUE]
                  ELSE conn[c]]
    /\ ljan' = [pc |-> "idle", now |-> 0]
    /\ UNCHANGED <<lnow, lcreated, mq, wrote, lost>>

RelayNext ==
    /\ \/ RelayTick
       \/ \E code \in PairCodes : CreatePair(code)
       \/ \E c \in Conns, code \in PairCodes, role \in WsRoles :
              WsUpgrade(c, code, role)
       \/ \E c \in Conns : WsRegister(c)
       \/ \E c \in Conns : WsLookup(c)
       \/ \E c \in Conns : WsSend(c)
       \/ \E c \in Conns : WsWrite(c)
       \/ \E c \in Conns : WsExit(c)
       \/ \E c \in Conns : WsAbort(c)
       \/ RelayCleanupStart
       \/ RelayCleanupSweep
    /\ UNCHANGED notRelay

\* =====================================================================
\* Session-validation cache
\* =====================================================================
CacheIds == {1, 2}
Ttls == 0..MaxTtl

\* now.saturating_sub(cached.cached_at)
CacheAge(now, cached) ==
    IF now > cached.cached_at THEN now - cached.cached_at ELSE 0

CacheFresh_AtTtl(now, cached) == CacheAge(now, cached) <= cached.ttl_seconds

\* the test of get and of the retain of cleanup_expired: age < ttl_seconds
CacheFresh(now, cached) == CacheAge(now, cached) < cached.ttl_seconds

\* SessionVerifyCache::get: Some(valid) or None
CacheLookup(now, id, entries) ==
    IF id \in DOMAIN entries /\ CacheFresh(now, entries[id])
    THEN [sid |-> id, hit |-> TRUE, valid |-> entries[id].valid]
    ELSE [sid |-> id, hit |-> FALSE, valid |-> FALSE]

CacheInit ==
    /\ cnow = 0
    /\ centries = << >>
    /\ cgot = [sid |-> 0, hit |-> FALSE, valid |-> FALSE]
    /\ cjan = [pc |-> "idle", now |-> 0]

\* the clock advances by one second
CacheTick ==
    /\ cnow < MaxCacheTicks
    /\ cnow' = cnow + 1
    /\ UNCHANGED <<centries, cgot, cjan>>

\* SessionVerifyCache::set
CacheSet(id, valid, ttl) ==
    /\ centries' = MapPut(centries, id,
                          [valid |-> valid, cached_at |-> cnow,
                           ttl_seconds |-> ttl])
    /\ UNCHANGED <<cnow, cgot, cjan>>

\* SessionVerifyCache::remove
CacheRemove(id) ==
    /\ id \in DOMAIN centries
    /\ centries' = MapRemove(centries, id)
    /\ UNCHANGED <<cnow, cgot, cjan>>

\* SessionVerifyCache::get, under the read lock
CacheGet(id) ==
    /\ cgot' = CacheLookup(cnow, id, centries)
    /\ UNCHANGED <<cnow, centries, cjan>>

\* SessionVerifyCache::cleanup_expired: the clock is read before the lock
CacheCleanupStart ==
    /\ cjan.pc = "idle"
    /\ cjan' = [pc |-> "sweep", now |-> cnow]
    /\ UNCHANGED <<cnow, centries, cgot>>

\* SessionVerifyCache::cleanup_expired: retain under the write lock
CacheCleanupSweep ==
    /\ cjan.pc = "sweep"
    /\ centries' = [k \in {x \in DOMAIN centries :
                               CacheFresh(cjan.now, centries[x])}
                      |-> centries[k]]
    /\ cjan' = [pc |-> "idle", now |-> 0]
    /\ UNCHANGED <<cnow, cgot>>

CacheNext ==
    /\ \/ CacheTick
       \/ \E id \in CacheIds, valid \in BOOLEAN, ttl \in Ttls :
              CacheSet(id, valid, ttl)
       \/ \E id \in CacheIds : CacheRemove(id)
       \/ \E id \in CacheIds : CacheGet(id)
       \/ CacheCleanupStart
       \/ CacheCleanupSweep
    /\ UNCHANGED notCache

Init == VoiceInit /\ RtcInit /\ OtpInit /\ RelayInit /\ CacheInit

SpecVoice == Init /\ [][VoiceNext]_vars

\* The tokio timer and the executor: time passes, an armed timeout fires and
\* a receiver whose value was sent is polled.
VoiceFairness ==
    /\ WF_vars(VoiceTick)
    /\ \A p \in ChatProcs : WF_vars(ChatReceive(p)) /\ WF_vars(ChatTimeout(p))

SpecVoiceFair == SpecVoice /\ VoiceFairness

SpecRtc == Init /\ [][RtcNext]_vars

\* tokio's RwLock grants the lock in the order of the requests, so a task
\* that waits for a lock gets it once it is free often enough; a task that
\* holds its guards runs on to the point where it drops them.
RtcFairness ==
    /\ SF_vars(CleanupLockMap)
    /\ \A id \in RtcIds : SF_vars(CleanupCheck(id))
    /\ WF_vars(CleanupRemove)
    /\ SF_vars(GetLockEntry)
    /\ WF_vars(GetSnapshot)
    /\ \A p \in JoinProcs : SF_vars(JoinLockEntry(p)) /\ WF_vars(JoinBody(p))

SpecRtcFair == SpecRtc /\ RtcFairness

SpecOtp == Init /\ [][OtpNext]_vars

SpecRelay == Init /\ [][RelayNext]_vars

SpecCache == Init /\ [][CacheNext]_vars

\* ---------------------------------------------------------------------
\* Claims about the voice rendezvous
\* ---------------------------------------------------------------------

\* C1: delivery by set_response is atomic with the transition to
\* ResponseReady: a chat request that observed Triggered and registered its
\* notifier is never left waiting on a session that already holds its response
\* with no broadcast still to come.
C1_NoWaiterLeftBehind ==
    \A p \in ChatProcs :
        LET id == chat[p].sid IN
        ( /\ chat[p].pc = "waiting"
          /\ chan[p].st = "open"
          /\ id \in DOMAIN vsessions
          /\ vsessions[id].state = "ResponseReady" )
        => \E r \in RespProcs : resp[r].pc = "wake" /\ resp[r].sid = id

\* C2: set_response(s, x) moves s to ResponseReady, and when it returns every
\* request that was waiting on s when it was called has been handed exactly x
\* (unless it gave up first), and the waiter list of s is empty.
C2_SetResponseBroadcast ==
    [][\A r \in RespProcs :
        /\ (\E id \in VoiceIds, x \in Responses :
                SetResponseStore(r, id, x) /\ id \in DOMAIN vsessions)
            => vsessions'[resp'[r].sid].state = "ResponseReady"
        /\ SetResponseWake(r)
            => /\ resp[r].sid \notin DOMAIN vwaiters'
               /\ \A p \in resp[r].called :
                    /\ chan'[p].st # "open"
                    /\ chan'[p].st \in {"sent", "received"}
                         => chan'[p].val = resp[r].val]_vars

\* the place of a state on the path Accumulating -> Triggered -> ResponseReady
StateRank(st) ==
    CASE st = "Accumulating" -> 0
      [] st = "Triggered" -> 1
      [] st = "ResponseReady" -> 2

\* C11: the state of a voice session only advances along Accumulating ->
\* Triggered -> ResponseReady: no step moves a session that stays in the map
\* to an earlier state.
C11_StateMonotonic ==
    [][\A id \in DOMAIN vsessions \cap DOMAIN vsessions' :
        StateRank(vsessions'[id].state) >= StateRank(vsessions[id].state)]_vars

\* C12: a voice session has no response while it is Accumulating or
\* Triggered, and has one while it is ResponseReady.
C12_ResponseIffReady ==
    \A id \in DOMAIN vsessions :
        (vsessions[id].response # None) <=> (vsessions[id].state = "ResponseReady")

\* chat request p took the ResponseReady arm and has returned `result`
CachedArmReturned(p, result) ==
    /\ chat[p].pc = "done"
    /\ chat[p].seen = "ResponseReady"
    /\ chat[p].result = result

\* C13: the cached response of a session is returned to at most one chat
\* request, and no request that saw ResponseReady returns Internal.
C13_OneShotDelivery ==
    \A p \in ChatProcs :
        /\ ~CachedArmReturned(p, "Internal")
        /\ \A q \in ChatProcs \ {p} :
                ~ ( /\ CachedArmReturned(p, "Response")
                    /\ CachedArmReturned(q, "Response")
                    /\ chat[p].sid = chat[q].sid )

\* C14 as claimed: once a session holds a response, no step changes or clears
\* it while the session stays in the map.
C14_ResponseKeptUntilDeleted ==
    [][\A id \in DOMAIN vsessions \cap DOMAIN vsessions' :
        vsessions[id].response # None
        => vsessions'[id].response = vsessions[id].response]_vars

\* C14 as amended: while a session stays in the map its response changes only
\* in the step of a set_response on it, to the value that call carries; no
\* other operation changes or clears it.
C14_ResponseKeptUntilReplaced ==
    [][\A id \in DOMAIN vsessions \cap DOMAIN vsessions' :
        vsessions'[id].response # vsessions[id].response
        => \E r \in RespProcs, x \in Responses :
                SetResponseStore(r, id, x) /\ vsessions'[id].response = x]_vars

\* a session that was triggered and took two more transcriptions after its
\* response was set
C14_Witness ==
    \E id \in DOMAIN vsessions :
        /\ vsessions[id].response # None
        /\ vsessions[id].state = "Triggered"
        /\ vsessions[id].request_count = NumChat
        /\ Len(vsessions[id].buffer) = NumChat

C16_DroppedWaitersSkipped ==
    [][\A r \in RespProcs :
        /\ (resp[r].pc = "idle" /\ resp'[r].pc = "wake")
            => vsessions'[resp'[r].sid].state = "ResponseReady"
        /\ SetResponseWake(r)
            => /\ resp'[r].result = "Ok"
               /\ \A p \in LiveWaiters(resp[r].sid) :
                    chan'[p] = [st |-> "sent", val |-> resp[r].val]]_vars

\* the only set_response so far has returned; it found the notifier of a
\* request that had timed out and handed its response to one still waiting
C16_Witness ==
    \E r \in RespProcs, p, q \in ChatProcs :
        /\ resp[r].pc = "done" /\ resp[r].result = "Ok"
        /\ \A r2 \in RespProcs \ {r} : resp[r2].pc = "idle"
        /\ vwaiters = << >>
        /\ chat[p].result = "GatewayTimeout" /\ chan[p].st = "rx_dropped"
        /\ chan[q].st = "sent" /\ chan[q].val = ResponseOf(r)
        /\ chat[p].sid = resp[r].sid /\ chat[q].sid = resp[r].sid

\* C26: trigger on an existing session returns its buffered texts in
\* insertion order with one space between neighbours (the empty string for
\* an empty buffer), sets the state to Triggered and leaves the buffer as it
\* was.
C26_TriggerJoinsBuffer ==
    [][(vret' # vret /\ vret'.sid \in DOMAIN vsessions) =>
          LET id == vret'.sid
              buf == vsessions[id].buffer
              K == Len(buf)
          IN /\ vret'.some
             /\ Len(vret'.text) = IF K = 0 THEN 0 ELSE 2 * K - 1
             /\ \A i \in 1..K : vret'.text[2 * i - 1] = buf[i]
             /\ \A i \in 1..(K - 1) : vret'.text[2 * i] = " "
             /\ vsessions'[id].state = "Triggered"
             /\ vsessions'[id].buffer = buf]_vars

\* C26: the latest trigger returned the two buffered texts with a space
\* between them
C26_Witness ==
    /\ vret.some
    /\ vret.text = <<TextOf(1), " ", TextOf(2)>>
    /\ vret.sid \in DOMAIN vsessions
    /\ vsessions[vret.sid].buffer = <<TextOf(1), TextOf(2)>>

StoreUntouched ==
    /\ vsessions' = vsessions
    /\ vwaiters' = vwaiters
    /\ vcreated' = vcreated
    /\ chan' = chan

\* C28: increment_requests, add_transcription, get_state, set_response and
\* trigger on a session id that is not in the store create no session and
\* change nothing in the store; get_state and trigger return None,
\* set_response returns None without going on to the waiters, and the chat
\* request answers NotFound.
C28_AbsentSessionNoOp ==
    [][/\ \A p \in ChatProcs :
            (/\ chat'[p].pc # chat[p].pc
             /\ chat[p].pc \in {"idle", "add", "get_state"}
             /\ chat'[p].sid \notin DOMAIN vsessions)
                => /\ StoreUntouched
                   /\ chat[p].pc = "get_state"
                         => /\ chat'[p].seen = None
                            /\ chat'[p].pc = "done"
                            /\ chat'[p].result = "NotFound"
       /\ \A r \in RespProcs :
            (/\ resp[r].pc = "idle"
             /\ resp'[r].pc # "idle"
             /\ resp'[r].sid \notin DOMAIN vsessions)
                => /\ StoreUntouched
                   /\ resp'[r].pc = "done"
                   /\ resp'[r].result = "NotFound"
                   /\ resp'[r].called = {}
       /\ (vret' # vret /\ vret'.sid \notin DOMAIN vsessions)
                => /\ StoreUntouched
                   /\ ~vret'.some]_vars

\* C28: set_response was called on a session that is no longer in the store
\* while a chat request was waiting on that session, and the request still
\* waits
C28_Witness ==
    \E r \in RespProcs, p \in ChatProcs :
        /\ resp[r].pc = "done"
        /\ resp[r].result = "NotFound"
        /\ chat[p].pc = "waiting"
        /\ chat[p].sid = resp[r].sid
        /\ chan[p].st = "open"

\* the notifier of request p is in the waiter table
Registered(p) == \E id \in DOMAIN vwaiters : p \in Range(vwaiters[id])

\* C35: a notifier leaves the waiter table only in the second critical
\* section of a set_response, which sends its response on it (to no effect
\* when the request has given up); no notifier is dropped unsent, so a
\* request that waits with its channel open still has its notifier in the
\* table, and a request that registered a waiter never ends with the
\* Internal outcome of a closed notifier.
C35_NotifierNeverDroppedUnsent ==
    /\ [][\A p \in ChatProcs :
            (Registered(p) /\ ~Registered(p)')
            => /\ \E r \in RespProcs : resp[r].pc = "wake" /\ resp'[r].pc = "done"
               /\ IF chan[p].st = "open"
                  THEN chan'[p].st = "sent"
                  ELSE chan[p].st = "rx_dropped" /\ chan'[p] = chan[p]]_vars
    /\ [](\A p \in ChatProcs :
            /\ (chat[p].pc = "waiting" /\ chan[p].st = "open") => Registered(p)
            /\ chat[p].seen = "Triggered"
                  => chat[p].result \in {None, "Response", "GatewayTimeout"})

\* C35: a request has timed out and its session has been removed, and its
\* notifier is still in the waiter table
C35_Witness ==
    \E p \in ChatProcs :
        /\ chat[p].result = "GatewayTimeout"
        /\ chat[p].sid \notin DOMAIN vsessions
        /\ Registered(p)

\* C36: whenever the waiter table holds the notifier of a request, the
\* session of that request is in the session map and the request is still
\* waiting.
C36_NoStaleNotifier ==
    \A id \in DOMAIN vwaiters : \A i \in 1..Len(vwaiters[id]) :
        /\ id \in DOMAIN vsessions
        /\ chat[vwaiters[id][i]].pc = "waiting"

\* ---------------------------------------------------------------------
\* Claims about the RTC registry
\* ---------------------------------------------------------------------

\* C3: of the N joins that have returned on one session, the first
\* min(N, MaxParticipants) succeeded with the distinct uids 1000, 1001, ... and
\* every later one was refused as full.
C3_JoinBurst ==
    \A id \in RtcIds : \A i \in 1..Len(joinLog[id]) :
        joinLog[id][i] = IF i <= MaxParticipants THEN InitialUid + (i - 1)
                                                 ELSE Full

\* ten joins have returned on one session, the last two refused as full
C3_Witness ==
    \E id \in RtcIds :
        /\ Len(joinLog[id]) = MaxParticipants + 2
        /\ joinLog[id][MaxParticipants + 2] = Full

\* C4: every RTC session has at most MaxParticipants participants.
C4_ParticipantCap ==
    \A id \in DOMAIN rsessions :
        Len(rsessions[id].participants) <= MaxParticipants

\* a full session on which a further join holds the entry lock
C4_Witness ==
    \E id \in DOMAIN rsessions, p \in JoinProcs :
        /\ Len(rsessions[id].participants) = MaxParticipants
        /\ join[p].pc = "body" /\ join[p].sid = id

\* C5: the i-th participant in join order (from 0) has uid 1000 + i, and
\* uid_counter = 1000 + |participants|.
C5_UidsContiguous ==
    \A id \in DOMAIN rsessions :
        LET inner == rsessions[id] IN
        /\ inner.uid_counter = InitialUid + Len(inner.participants)
        /\ \A i \in 1..Len(inner.participants) :
                inner.participants[i].uid = InitialUid + (i - 1)

\* a session that took three joins
C5_Witness ==
    \E id \in DOMAIN rsessions : Len(rsessions[id].participants) = 3

\* C25: a sweep of the RTC janitor removes exactly the sessions whose
\* expires_at is before the time the janitor read, and leaves the others as
\* they are; no join is inside a session while the sweep holds the map, and
\* every uid a join returned for a session that is still in the store belongs
\* to a participant of that session.
C25_RtcSweepExact ==
    /\ [](/\ rjan.pc = "scan" => \A p \in JoinProcs : join[p].pc = "idle"
          /\ \A id \in DOMAIN rsessions : \A i \in 1..Len(joinLog[id]) :
                 joinLog[id][i] # Full
                     => \E k \in 1..Len(rsessions[id].participants) :
                            rsessions[id].participants[k].uid = joinLog[id][i])
    /\ [][(rjan.pc = "scan" /\ rjan'.pc = "idle") =>
             \A id \in DOMAIN rsessions :
                 /\ id \notin DOMAIN rsessions'
                       <=> rsessions[id].expires_at < rjan.now
                 /\ id \in DOMAIN rsessions'
                       => rsessions'[id] = rsessions[id]]_vars

\* C25: the janitor, which read the clock at the very expires_at of a
\* session that a join has entered, has scanned the map and keeps the session
C25_Witness ==
    /\ rjan.pc = "scan"
    /\ rjan.todo = {}
    /\ \E id \in DOMAIN rsessions :
          /\ rjan.now = rsessions[id].expires_at
          /\ id \notin rjan.expired_ids
          /\ joinLog[id] # << >>

\* C33: the RTC janitor does not hold the write lock of the sessions map
\* while it takes the lock of an entry: whenever it reads the expires_at of
\* a session, the map's write lock is not the janitor's.
C33_NoEntryLockUnderMapLock ==
    [][(rjan.pc = "scan" /\ rjan'.todo # rjan.todo)
          => JanitorTask \notin rmap.writer]_vars

\* the tasks that hold a lock
Holders(l) == l.readers \cup l.writer

\* C34: the RTC registry does not deadlock: a task holds the lock of an
\* entry only while it holds the lock of the map, and under fair granting
\* of the locks every join, get and sweep that has started comes to its end.
C34_RtcNoDeadlock ==
    /\ [](\A id \in RtcIds : Holders(rentry[id]) \subseteq Holders(rmap))
    /\ \A p \in JoinProcs : (join[p].pc # "idle") ~> (join[p].pc = "idle")
    /\ (rget.pc # "idle") ~> (rget.pc = "idle")
    /\ (rjan.pc # "idle") ~> (rjan.pc = "idle")

\* C34: the janitor waits for the map's write lock and a get waits for the
\* lock of an entry, both behind a join that holds the map and that entry
C34_Witness ==
    \E p \in JoinProcs :
        /\ join[p].pc = "body"
        /\ rget.pc = "entry"
        /\ rget.sid = join[p].sid
        /\ rjan.pc = "lock"

\* C39: a join refused because the session is full changes nothing: the
\* step that answers "Session is full" is taken by the task holding the
\* entry's write lock, with the cap reached, and leaves every session's
\* participants and uid_counter as they were; a join below the cap, in the
\* same single step under that lock, takes one uid and adds one participant.
C39_FullJoinChangesNothing ==
    [][\A p \in JoinProcs :
          (join[p].pc = "body" /\ join'[p].pc = "idle")
              => LET id == join[p].sid
                     inner == rsessions[id]
                 IN /\ rentry[id].writer = {JoinTask(p)}
                    /\ IF Len(inner.participants) >= MaxParticipants
                       THEN /\ joinLog'[id] = Append(joinLog[id], Full)
                            /\ rsessions' = rsessions
                       ELSE /\ joinLog'[id] # Append(joinLog[id], Full)
                            /\ rsessions'[id].uid_counter
                                   = inner.uid_counter + 1
                            /\ Len(rsessions'[id].participants)
                                   = Len(inner.participants) + 1]_vars

\* C39: a join was refused as full, and the session still has its eight
\* participants and the counter the eighth join left
C39_Witness ==
    \E id \in DOMAIN rsessions :
        /\ Len(joinLog[id]) > MaxParticipants
        /\ joinLog[id][Len(joinLog[id])] = Full
        /\ Len(rsessions[id].participants) = MaxParticipants
        /\ rsessions[id].uid_counter = InitialUid + MaxParticipants

\* ---------------------------------------------------------------------
\* Claims about the OTP sessions
\* ---------------------------------------------------------------------

\* C6: on one session a grant and a deny are mutually exclusive: they never
\* both return success.
C6_GrantDenyExclusive ==
    \A g \in GrantProcs, d \in DenyProcs :
        ~ ( /\ grant[g].result = "Ok"
            /\ deny[d].result = "Ok"
            /\ grant[g].sid = deny[d].sid )

\* C7: on one session at most one grant returns success, and while the session
\* is stored as Granted its token is the one that grant returned.
C7_SingleGrant ==
    \A g \in GrantProcs :
        grant[g].result = "Ok" =>
            /\ \A h \in GrantProcs \ {g} :
                    ~ (grant[h].result = "Ok" /\ grant[h].sid = grant[g].sid)
            /\ ( /\ grant[g].sid \in DOMAIN osessions
                 /\ osessions[grant[g].sid].status = "Granted" )
               => osessions[grant[g].sid].token = grant[g].token

\* C8: the stored status of a session changes only from Pending to Granted or
\* from Pending to Denied.
C8_StatusChangesOnlyFromPending ==
    [][\A id \in DOMAIN osessions :
        ( /\ id \in DOMAIN osessions'
          /\ osessions'[id].status # osessions[id].status )
        => /\ osessions[id].status = "Pending"
           /\ osessions'[id].status \in {"Granted", "Denied"}]_vars

\* C9: a stored session has a token if and only if its status is Granted.
C9_TokenIffGranted ==
    \A id \in DOMAIN osessions :
        (osessions[id].token # {}) <=> (osessions[id].status = "Granted")

\* a session stored as Denied although a grant on it returned success
C9_Witness ==
    \E id \in DOMAIN osessions, g \in GrantProcs :
        /\ osessions[id].status = "Denied"
        /\ grant[g].result = "Ok" /\ grant[g].sid = id

\* the order of the checks as the claim gives it
ClaimedGrantResult(session, otp, t) ==
    IF session.status # "Pending" THEN "Conflict"
    ELSE IF otp # session.otp THEN "Unauthorized"
    ELSE IF t > session.expires_at THEN "Gone"
    ELSE "Ok"

\* the order of the checks with expiry before the OTP
ExpiryFirstGrantResult(session, otp, t) ==
    IF session.status # "Pending" THEN "Conflict"
    ELSE IF t > session.expires_at THEN "Gone"
    ELSE IF otp # session.otp THEN "Unauthorized"
    ELSE "Ok"

\* the first test of a grant that found its session: Conflict exactly when
\* the status of the copy is not Pending
GrantStatusChecked(g) ==
    ( /\ grant[g].pc = "idle"
      /\ grant'[g].pc # "idle"
      /\ grant'[g].result # "NotFound" )
    => LET copy == osessions[grant'[g].sid]
       IN IF copy.status # "Pending"
          THEN grant'[g].pc = "done" /\ grant'[g].result = "Conflict"
          ELSE grant'[g].pc = "validate" /\ grant'[g].session = copy

\* grant g, holding a Pending copy, decides its answer in this step
GrantDecides(g) == grant[g].pc = "validate" /\ grant'[g].pc # "validate"

\* the answer it decides on
GrantAnswer(g) == IF grant'[g].pc = "update" THEN "Ok" ELSE grant'[g].result

\* C10 as claimed: a grant that found its session returns Conflict if the
\* status it read is not Pending, else Unauthorized if the OTP differs, else
\* Gone if the clock is past expires_at, else success.
C10_OtpBeforeExpiry ==
    [][\A g \in GrantProcs :
        /\ GrantStatusChecked(g)
        /\ GrantDecides(g) =>
             GrantAnswer(g) = ClaimedGrantResult(grant[g].session,
                                                 grant[g].otp, onow)]_vars

\* C10 as amended: a grant that found its session returns Conflict if the
\* status it read is not Pending, else Gone if the clock is past expires_at,
\* else Unauthorized if the OTP differs, else success.
C10_ExpiryBeforeOtp ==
    [][\A g \in GrantProcs :
        /\ GrantStatusChecked(g)
        /\ GrantDecides(g) =>
             GrantAnswer(g) = ExpiryFirstGrantResult(grant[g].session,
                                                     grant[g].otp, onow)]_vars

\* a wrong OTP on an expired Pending session was answered Gone
C10_Witness ==
    \E g \in GrantProcs : grant[g].result = "Gone" /\ ~grant[g].matched

C24_OtpSweepExact ==
    [][(ojan.pc = "sweep" /\ ojan'.pc = "idle") =>
          \A id \in DOMAIN osessions :
              /\ id \notin DOMAIN osessions'
                    <=> /\ osessions[id].status = "Pending"
                        /\ ojan.now > osessions[id].expires_at
              /\ id \in DOMAIN osessions' => osessions'[id] = osessions[id]]_vars

\* C24: the janitor has removed the session that was created, and no sweep
\* is under way
C24_Witness ==
    /\ ocreated = 1
    /\ DOMAIN osessions = {}
    /\ ojan.pc = "idle"

\* C32: a removed OTP session stays absent: only create_session puts an id
\* into the store, so no grant or deny that was in flight when the janitor
\* removed the session brings an entry for its id back, and a status request
\* for an absent id answers NotFound.
C32_RemovedStaysAbsent ==
    [][/\ \A id \in DOMAIN osessions' \ DOMAIN osessions :
            ocreated' = ocreated + 1
       /\ (ostat' # ostat /\ ostat'.sid \notin DOMAIN osessions)
            => ostat'.status = "NotFound"]_vars

\* grant request p was answered Unauthorized for an OTP that did not match
\* the one of session id
RejectedForOtp(p, id) ==
    /\ grant[p].pc = "done"
    /\ grant[p].sid = id
    /\ grant[p].result = "Unauthorized"
    /\ ~grant[p].matched

\* C40: the step in which a grant is answered NotFound, Conflict,
\* Unauthorized or Gone, and the step in which a deny is answered NotFound or
\* Conflict, leave every stored session as it was (status, token, otp and
\* expiry); and when a grant has been rejected for a wrong OTP, a grant
\* carrying the right OTP that is validated while the stored session is
\* Pending and not expired is not rejected, and its update stores the session
\* Granted with the token it returns.
C40_FailedRequestsChangeNothing ==
    [][/\ \A p \in GrantProcs :
             (/\ grant[p].pc # "done" /\ grant'[p].pc = "done"
              /\ grant'[p].result # "Ok")
                 => /\ grant'[p].result \in {"NotFound", "Conflict",
                                             "Unauthorized", "Gone"}
                    /\ osessions' = osessions
       /\ \A p \in DenyProcs :
             (/\ deny[p].pc # "done" /\ deny'[p].pc = "done"
              /\ deny'[p].result # "Ok")
                 => /\ deny'[p].result \in {"NotFound", "Conflict"}
                    /\ osessions' = osessions
       /\ \A q \in GrantProcs :
             LET id == grant[q].sid
             IN (/\ \E p \in GrantProcs \ {q} : RejectedForOtp(p, id)
                 /\ id \in DOMAIN osessions
                 /\ osessions[id].status = "Pending"
                 /\ onow <= osessions[id].expires_at
                 /\ grant[q].otp = osessions[id].otp)
                    => /\ (grant[q].pc = "validate" /\ grant'[q].pc # "validate")
                            => grant'[q].pc = "update"
                       /\ (grant[q].pc = "update" /\ grant'[q].pc # "update")
                            => /\ grant'[q].result = "Ok"
                               /\ osessions'[id].status = "Granted"
                               /\ osessions'[id].token = grant'[q].token
                               /\ osessions'[id].otp = osessions[id].otp]_vars

\* C40: the first grant was rejected for a wrong OTP, the second carried the
\* right one and was answered Ok within the session's lifetime, and the
\* session is stored Granted with the second grant's token
C40_Witness ==
    \E id \in DOMAIN osessions :
        /\ RejectedForOtp(1, id)
        /\ grant[2].pc = "done" /\ grant[2].sid = id /\ grant[2].result = "Ok"
        /\ osessions[id].status = "Granted"
        /\ osessions[id].token = grant[2].token
        /\ onow <= osessions[id].expires_at
        /\ \A d \in DenyProcs : deny[d].pc = "idle"

\* =====================================================================
\* Claims about the pair relay
\* =====================================================================

\* the frames a connection's socket was given, followed by its backlog
Stream(c) == wrote[c] \o mq[c].buf

\* C17: the frames of one source reach the peer's sink, and the peer's
\* socket, in the order they were read: in every connection's stream the
\* frames of one source carry increasing numbers (none twice, none out of
\* order), and no frame is in the streams of two connections.
C17_SourceOrderKept ==
    /\ \A c \in Conns : \A i, j \in 1..Len(Stream(c)) :
           (i < j /\ Stream(c)[i][1] = Stream(c)[j][1])
               => Stream(c)[i][2] < Stream(c)[j][2]
    /\ \A c, d \in Conns : \A i \in 1..Len(Stream(c)), j \in 1..Len(Stream(d)) :
           Stream(c)[i] = Stream(d)[j] => c = d

\* C17: a connection's socket was given the first and then the second frame
\* of one source
C17_Witness ==
    \E c, s \in Conns : wrote[c] = << <<s, 1>>, <<s, 2>> >>

\* the room of connection c holds no sender for the role opposite to c's
OtherRoleAbsent(c) ==
    \/ conn[c].code \notin DOMAIN rooms
    \/ /\ conn[c].role = "atem"
       /\ rooms[conn[c].code].astation_tx = NoSink
    \/ /\ conn[c].role = "astation"
       /\ rooms[conn[c].code].atem_tx = NoSink

\* C18: a frame read while the other role's sink is absent from the room is
\* dropped: the step that reads it changes no channel and keeps nothing to
\* send, and the frame is never in the backlog of any connection nor written
\* to any socket, whoever connects later.
C18_FrameWithoutPeerDropped ==
    /\ [](\A f \in lost : \A c \in Conns : \A i \in 1..Len(Stream(c)) :
             Stream(c)[i] # f)
    /\ [][\A c \in Conns :
             (conn[c].pc = "reading" /\ conn'[c].nread = conn[c].nread + 1
                 /\ OtherRoleAbsent(c))
             => /\ mq' = mq
                /\ conn'[c].pc = "reading"
                /\ conn'[c].other = NoSink
                /\ <<c, conn'[c].nread>> \in lost']_vars

\* C18: the first frame of a connection was read without a peer, and a peer
\* that connected afterwards was given the second frame only
C18_Witness ==
    \E c, d \in Conns :
        /\ <<c, 1>> \in lost
        /\ wrote[d] = << <<c, 2>> >>

\* the sender a room holds for a role
SinkOf(room, role) == IF role = "atem" THEN room.atem_tx ELSE room.astation_tx

\* the role opposite to a role
Opposite(role) == IF role = "atem" THEN "astation" ELSE "atem"

\* C19: when the reader of a connection exits, the room loses the sink of
\* that connection's role; the room is removed if the other role's sink is
\* absent too, and otherwise it stays with the other role's sink and its
\* creation time as they were, and the status reports paired = false after
\* the exit of an astation connection.
C19_ExitClearsSink ==
    [][\A c \in Conns :
          (conn[c].pc = "reading" /\ conn'[c].pc = "abort"
              /\ conn[c].code \in DOMAIN rooms)
          => LET code == conn[c].code
                 role == conn[c].role
             IN IF SinkOf(rooms[code], Opposite(role)) = NoSink
                THEN code \notin DOMAIN rooms'
                ELSE /\ code \in DOMAIN rooms'
                     /\ SinkOf(rooms'[code], role) = NoSink
                     /\ SinkOf(rooms'[code], Opposite(role))
                            = SinkOf(rooms[code], Opposite(role))
                     /\ rooms'[code].created_at = rooms[code].created_at
                     /\ (role = "astation" => ~Paired(rooms'[code]))]_vars

\* C19: an astation connection has left a room that an atem connection still
\* holds, and the status of that room reports paired = false
C19_Witness ==
    \E c \in Conns :
        /\ conn[c].pc = "abort"
        /\ conn[c].role = "astation"
        /\ conn[c].code \in DOMAIN rooms
        /\ rooms[conn[c].code].atem_tx # NoSink
        /\ ~Paired(rooms[conn[c].code])

\* the janitor, holding the write lock, finishes its sweep in this step
SweepStep == ljan.pc = "sweep" /\ ljan'.pc = "idle"

C21_CreateKeepsExistingRooms ==
    [][lcreated' = lcreated + 1
          => /\ \A code \in DOMAIN rooms :
                   code \in DOMAIN rooms' /\ rooms'[code] = rooms[code]
             /\ Cardinality(DOMAIN rooms') = Cardinality(DOMAIN rooms) + 1]_vars

\* C22: a WebSocket request whose role is neither atem (host) nor astation
\* (client) is rejected before the upgrade: its connection is never accepted,
\* so it never reaches handle_ws, stores no sink, reads no frame and leaves
\* every channel empty.
C22_UnknownRoleRejected ==
    \A c \in Conns :
        (conn[c].pc # "idle" /\ conn[c].role \notin Roles)
            => /\ conn[c].pc = "done"
               /\ conn[c].result = "NotFound"
               /\ conn[c].nread = 0
               /\ ~mq[c].live

\* C30: while a connection holds the sink of its role in a room and its
\* reader runs, the exit of another connection of the same role (an earlier
\* one, which it replaced) leaves the room in place with the sink of that
\* role still the live connection's.
C30_ReplacedExitKeepsSink ==
    [][\A c, d \in Conns :
          (/\ c # d
           /\ conn[d].pc = "reading" /\ conn'[d].pc = "abort"
           /\ conn[c].pc \in {"reading", "send"}
           /\ conn[c].code = conn[d].code
           /\ conn[c].role = conn[d].role
           /\ conn[c].code \in DOMAIN rooms
           /\ SinkOf(rooms[conn[c].code], conn[c].role) = c)
          => /\ conn[c].code \in DOMAIN rooms'
             /\ SinkOf(rooms'[conn[c].code], conn[c].role) = c]_vars

\* C31: the cleanup of an exiting connection removes a room only when no
\* other connection to that room has a running reader.
C31_NoRemovalUnderLiveReader ==
    [][\A d \in Conns :
          (/\ conn[d].pc = "reading" /\ conn'[d].pc = "abort"
           /\ conn[d].code \in DOMAIN rooms
           /\ conn[d].code \notin DOMAIN rooms')
          => \A c \in Conns \ {d} :
                ~(/\ conn[c].code = conn[d].code
                  /\ conn[c].pc \in {"reading", "send"})]_vars

\* connection t held the sink of its role in its room and a later
\* connection of the same role has taken its place
Replaced(t) ==
    /\ conn[t].pc \in {"reading", "send"}
    /\ conn[t].code \in DOMAIN rooms
    /\ SinkOf(rooms[conn[t].code], conn[t].role) \notin {NoSink, t}

\* C37: a connection accepted for a role becomes the sink of that role in
\* its room, in place of any earlier one, and once a connection has been
\* replaced no frame is enqueued to it any more: the frames of the peer role
\* go to the new connection only.
C37_OnlyNewSinkReceives ==
    [][/\ \A d \in Conns :
             (conn[d].pc = "setup" /\ conn'[d].pc = "reading")
                 => SinkOf(rooms'[conn[d].code], conn[d].role) = d
       /\ \A t \in Conns :
             (Replaced(t) /\ mq[t].live /\ mq'[t].live)
                 => Len(mq'[t].buf) <= Len(mq[t].buf)]_vars

\* the reader of host connection c runs while no room exists under its code
Orphaned(c) ==
    /\ conn[c].role = "atem"
    /\ conn[c].pc = "reading"
    /\ conn[c].code \notin DOMAIN rooms

\* the step leaves connection c as it was, the observation swept apart
SameConn(c) == [conn'[c] EXCEPT !.swept = conn[c].swept] = conn[c]

\* C38, as stated: the janitor removes a room aged at least 600 seconds
\* without a client sink although the host sink is present, the host's
\* reader keeps running, and every frame the host reads after the janitor
\* removed its room is dropped: no sender is found for it and it is lost.
C38_SweptHostNeverForwards ==
    [][/\ SweepStep =>
             /\ \A code \in DOMAIN rooms :
                    (/\ ljan.now - rooms[code].created_at >= RoomExpirySecs
                     /\ rooms[code].astation_tx = NoSink)
                        => code \notin DOMAIN rooms'
             /\ \A c \in Conns : SameConn(c)
             /\ mq' = mq
       /\ \A c \in Conns :
             (/\ conn[c].swept
              /\ conn[c].role = "atem"
              /\ conn[c].pc = "reading"
              /\ conn'[c].nread = conn[c].nread + 1)
                 => /\ <<c, conn'[c].nread>> \in lost'
                    /\ conn'[c].pc = "reading"
                    /\ mq' = mq]_vars

\* C38, amended: the janitor's sweep removes every room aged at least 600
\* seconds that has no client sink, its host sink present or not, and leaves
\* the connections and their channels alone, so the host's reader keeps
\* running; every frame a connection reads while no room exists under its
\* code is dropped: it is counted lost, reaches no channel, and the reader
\* goes on to the next frame.
C38_JanitorIgnoresHostSink ==
    [][/\ SweepStep =>
             /\ \A code \in DOMAIN rooms :
                    (/\ ljan.now - rooms[code].created_at >= RoomExpirySecs
                     /\ rooms[code].astation_tx = NoSink)
                        => code \notin DOMAIN rooms'
             /\ \A c \in Conns : SameConn(c)
             /\ mq' = mq
       /\ \A c \in Conns :
             (/\ conn[c].pc = "reading"
              /\ conn'[c].nread = conn[c].nread + 1
              /\ conn[c].code \notin DOMAIN rooms)
                 => /\ <<c, conn'[c].nread>> \in lost'
                    /\ conn'[c].pc = "reading"
                    /\ mq' = mq]_vars

\* C38: the only room ever created saw one host and a client that connected
\* and left; the janitor has removed it under the host, whose reader is
\* still running, and a frame of the host is lost
C38_Witness ==
    \E c, d \in Conns :
        /\ Orphaned(c)
        /\ conn[c].swept
        /\ lcreated = 1
        /\ \A e \in Conns \ {c} : conn[e].role # "atem"
        /\ conn[d].role = "astation" /\ conn[d].result = "Closed"
        /\ conn[d].code = conn[c].code
        /\ lnow >= RoomExpirySecs
        /\ <<c, conn[c].nread>> \in lost

\* =====================================================================
\* Claims about the session-validation cache
\* =====================================================================

\* the whole seconds from the caching of the entry of id to the time t
\* (none when t is earlier)
EntryAge(t, id) ==
    IF t - centries[id].cached_at > 0 THEN t - centries[id].cached_at ELSE 0

\* C29: get(id) returns the cached validity exactly when the cache holds an
\* entry for id whose age is less than its ttl, and reports a miss
\* otherwise, without changing the cache; a sweep of the janitor removes
\* exactly the entries whose age has reached their ttl and leaves the
\* others as they are.
C29_CacheTtl ==
    [][/\ cgot' # cgot =>
            /\ centries' = centries
            /\ cgot'.hit <=> /\ cgot'.sid \in DOMAIN centries
                             /\ EntryAge(cnow, cgot'.sid)
                                    < centries[cgot'.sid].ttl_seconds
            /\ cgot'.hit => cgot'.valid = centries[cgot'.sid].valid
       /\ (cjan.pc = "sweep" /\ cjan'.pc = "idle") =>
            \A id \in DOMAIN centries :
                /\ id \notin DOMAIN centries'
                      <=> EntryAge(cjan.now, id) >= centries[id].ttl_seconds
                /\ id \in DOMAIN centries'
                      => centries'[id] = centries[id]]_vars

\* C29: the latest get missed on an entry that has outlived its ttl and is
\* still in the cache
C29_Witness ==
    /\ ~cgot.hit
    /\ cgot.sid \in DOMAIN centries
    /\ centries[cgot.sid].ttl_seconds > 0
    /\ EntryAge(cnow, cgot.sid) >= centries[cgot.sid].ttl_seconds
    /\ cjan.pc = "idle"

====
